---- MODULE Spec2Model ----
(***************************************************************************)
(* Model of nintendo/pia/mesh.py: the 32-slot station registry             *)
(* (StationList), the join-response reassembler (JoinResponseDecoder),     *)
(* the mesh control protocol (MeshProtocol) and the membership state       *)
(* machine (MeshMgr).                                                      *)
(*                                                                         *)
(* Conventions.  Python's 0-based indexing is kept in every value the code *)
(* computes (slot numbers, fragment indices, record offsets); TLA+         *)
(* sequences are 1-based, so element k of a Python list or bytes object is *)
(* element k + 1 of the sequence that models it.  An exception raised by a *)
(* handler is an entry of `out`; the assignments made before the raise are *)
(* kept, as in Python.                                                     *)
(***************************************************************************)
EXTENDS Integers, Sequences, FiniteSets, TLC

VARIABLES
    stations,                 \* StationList.stations of MeshMgr.stations: slot -> station handle or None
    index,                    \* the index field of every station handle
    host_index,               \* MeshMgr.host_index
    update_counter,           \* MeshMgr.update_counter
    expecting_join_response,  \* MeshMgr.expecting_join_response
    pending_connect,          \* MeshMgr.pending_connect: rvcid -> index
    sliding_windows,          \* MeshProtocol.sliding_windows: slot -> station the channel was made for, or None
    dec,                      \* the JoinResponseDecoder's attributes
    out,                      \* what the last operation sent, logged, signalled and raised, in order
    call,                     \* one MeshProtocol.send_join_response call: its arguments and the packets it sent
    fed                       \* the positions of call.packets already delivered to the decoder;
                              \* under SpecDup the log of deliveries <<position, packet, emitted>>

vars == <<stations, index, host_index, update_counter, expecting_join_response,
          pending_connect, sliding_windows, dec, out, call, fed>>

---------------------------------------------------------------------------
(* Values *)

\* Python's None, for the attributes and slots that hold an integer or None.
None == -1

\* The number of slots of a StationList and of MeshProtocol.sliding_windows.
NumSlots == 32

Slots == 0 .. (NumSlots - 1)

\* The index a station handle carries before a registry assigns one.
Unassigned == 253

\* The station handles of the model: 1 .. NumStations.  A handle's number is
\* also its rvcid and the identity its connection descriptor carries.
NumStations == 3

StationIds == 1 .. NumStations

\* session.station, the local station.
SelfStation == 1

\* StationConnectionInfo.sizeof(): the size of a serialized connection descriptor.
DescSize == 1

MESSAGE_JOIN_REQUEST == 1

MESSAGE_JOIN_RESPONSE == 2

MESSAGE_UPDATE_MESH == 32

\* Python's message[k].
Byte(message, k) == message[k + 1]

\* Python's data[k:].
Slice(data, k) == SubSeq(data, k + 1, Len(data))

\* One entry of `out`: a send, a log line, a signal or a raised exception.
Output(op, name, station, data) ==
    [op |-> op, name |-> name, station |-> station, data |-> data]

Raise(name) == Output("raise", name, None, <<>>)

Warning(text) == Output("warning", text, None, <<>>)

\* The exceptions among some outputs.
Raised(o) == SelectSeq(o, LAMBDA e : e.op = "raise")

---------------------------------------------------------------------------
(* StationList *)

EmptyList == [i \in Slots |-> None]

is_usable(st, i) == st[i] = None

\* Defined when some slot is free: the caller raises OverflowError otherwise.
next_index(st) == CHOOSE i \in Slots : st[i] = None /\ \A j \in Slots : j < i => st[j] # None

IsFull(st) == \A i \in Slots : st[i] # None

StationList_len(st) == Cardinality({i \in Slots : st[i] # None})

\* list(filter(None, self.stations)): the occupants in slot order.
RECURSIVE FilteredFrom(_, _)
FilteredFrom(st, i) ==
    IF i >= NumSlots THEN <<>>
    ELSE (IF st[i] # None THEN <<st[i]>> ELSE <<>>) \o FilteredFrom(st, i + 1)

StationList_getitem(st, position) == FilteredFrom(st, 0)[position + 1]

\* A mutant of StationList_add: the occupancy test of line 21 is dropped.
StationList_add_NoCheck(st, idx, station, i) ==
    IF i = None /\ IsFull(st)
    THEN [stations |-> st, index |-> idx, err |-> "OverflowError"]
    ELSE LET j == IF i = None THEN next_index(st) ELSE i
         IN  IF j \notin Slots
             THEN [stations |-> st, index |-> idx, err |-> "IndexError"]
             ELSE [stations |-> [st EXCEPT ![j] = station],
                   index |-> [idx EXCEPT ![station] = j], err |-> ""]

\* StationList.add(station, index): the registry and the index fields after the
\* call, and the exception it raised ("" for none).  i = None is "no index".
StationList_add(st, idx, station, i) ==
    IF i = None /\ IsFull(st)
    THEN [stations |-> st, index |-> idx, err |-> "OverflowError"]
    ELSE LET j == IF i = None THEN next_index(st) ELSE i
         IN  IF j \notin Slots
             THEN [stations |-> st, index |-> idx, err |-> "IndexError"]
             ELSE IF ~is_usable(st, j)
             THEN [stations |-> st, index |-> idx, err |-> "IndexError"]
             ELSE [stations |-> [st EXCEPT ![j] = station],
                   index |-> [idx EXCEPT ![station] = j], err |-> ""]

---------------------------------------------------------------------------
(* StationInfo *)

\* A StationInfo is <<connection_info, index>>, connection_info being the
\* descriptor's bytes; an empty place of JoinResponseDecoder.infos is NoInfo.
NoInfo == <<>>

StationInfo_sizeof == DescSize + 2

\* The descriptor of the station whose identity (rvcid) is id.
ConnectionInfo(id) == [b \in 1 .. DescSize |-> IF b = 1 THEN id ELSE 0]

\* info.connection_info.public_station.rvcid
InfoRvcid(info) == info[1][1]

StationInfo_serialize(info) == info[1] \o <<info[2], 0>>

\* Whether StationInfo.deserialize(data) returns: the descriptor needs DescSize
\* bytes and data[conn_info.sizeof()] one more.
CanDeserialize(data) == Len(data) >= DescSize + 1

StationInfo_deserialize(data) == <<SubSeq(data, 1, DescSize), Byte(data, DescSize)>>

---------------------------------------------------------------------------
(* JoinResponseDecoder *)

\* The decoder as __init__ leaves it: reset() sets station only, the other
\* attributes do not exist before the first update_info.
NewDecoder ==
    [station |-> None, num_stations |-> None, host_index |-> None,
     assigned_index |-> None, num_fragments |-> None,
     fragments_received |-> <<>>, infos |-> <<>>]

reset(d) == [d EXCEPT !.station = None]

\* A list of n copies of x (the [x] * n of lines 103 and 104).
RECURSIVE Repeat(_, _)
Repeat(x, n) == IF n = 0 THEN <<>> ELSE Append(Repeat(x, n - 1), x)

update_info(d, station, message) ==
    [station |-> station,
     num_stations |-> Byte(message, 1),
     host_index |-> Byte(message, 2),
     assigned_index |-> Byte(message, 3),
     num_fragments |-> Byte(message, 4),
     fragments_received |-> Repeat(FALSE, Byte(message, 4)),
     infos |-> Repeat(NoInfo, Byte(message, 1))]

\* A mutant of check_info: the sending station is not compared.
check_info_AnyStation(d, station, message) ==
    /\ d.num_stations = Byte(message, 1)
    /\ d.host_index = Byte(message, 2)
    /\ d.assigned_index = Byte(message, 3)
    /\ d.num_fragments = Byte(message, 4)

check_info(d, station, message) ==
    /\ d.station = station
    /\ d.num_stations = Byte(message, 1)
    /\ d.host_index = Byte(message, 2)
    /\ d.assigned_index = Byte(message, 3)
    /\ d.num_fragments = Byte(message, 4)

\* Python's all(self.infos): a StationInfo is a 2-tuple, which is true.
all(infos) == \A k \in 1 .. Len(infos) : infos[k] # NoInfo

\* A mutant of InfoSlot: the record offset of the fragment is not added.
InfoSlot_NoOffset(fragment_offs, i) == i

\* Line 84: the place in infos of record i of a fragment.
InfoSlot(fragment_offs, i) == fragment_offs + i

\* The loop of lines 83-91 from record i on, reading at byte `offset`: the
\* decoder after it, the warnings it logged and the exception that ended it.
RECURSIVE StoreInfos(_, _, _, _, _)
StoreInfos(d, message, i, offset, log) ==
    LET fragment_length == Byte(message, 6)
        fragment_offs == Byte(message, 7)
        slot == InfoSlot(fragment_offs, i)
    IN  IF i >= fragment_length
        THEN [dec |-> d, log |-> log, err |-> ""]
        ELSE IF slot >= Len(d.infos)
        THEN [dec |-> d, log |-> log, err |-> "IndexError"]
        ELSE LET log1 == IF d.infos[slot + 1] # NoInfo
                         THEN Append(log, Warning("Overlapping join response fragments received"))
                         ELSE log
             IN  IF ~CanDeserialize(Slice(message, offset))
                 THEN [dec |-> d, log |-> log1, err |-> "IndexError"]
                 ELSE StoreInfos(
                          [d EXCEPT !.infos[slot + 1] = StationInfo_deserialize(Slice(message, offset))],
                          message, i + 1, offset + StationInfo_sizeof, log1)

\* The arguments of one call of the `finished` signal.
Finished(station, d) ==
    [station |-> station, host_index |-> d.host_index,
     assigned_index |-> d.assigned_index, infos |-> d.infos]

\* A mutant of AlreadyReceived: no fragment counts as a duplicate.
AlreadyReceived_Never(d, fragment_index) == FALSE

\* Line 76: whether the fragment is marked received.
AlreadyReceived(d, fragment_index) == d.fragments_received[fragment_index + 1]

\* A mutant of IsComplete: the response counts as complete when the fragment
\* with the highest index arrives.
IsComplete_LastFragment(d, message) == Byte(message, 5) = d.num_fragments - 1

\* A mutant of IsComplete: the response counts as complete as soon as one
\* record is stored.
IsComplete_AnyRecord(d, message) == \E k \in 1 .. Len(d.infos) : d.infos[k] # NoInfo

\* Line 93: whether the response is complete after storing a fragment.
IsComplete(d, message) == all(d.infos)

\* JoinResponseDecoder.parse(station, message) on decoder d: the decoder after
\* the call, the warnings logged, the calls of `finished` (none or one) and the
\* exception raised.  cb_err is the exception the subscriber of `finished`
\* raises ("" for none): it leaves parse before the reset of line 95.
parse(d, station, message, cb_err) ==
    LET incompatible == d.station # None /\ ~check_info(d, station, message)
        d1 == IF d.station = None THEN update_info(d, station, message)
              ELSE IF incompatible THEN update_info(reset(d), station, message)
              ELSE d
        log1 == IF incompatible
                THEN <<Warning("Incompatible join response fragment received")>>
                ELSE <<>>
        fragment_index == Byte(message, 5)
    IN  IF fragment_index >= Len(d1.fragments_received)
        THEN [dec |-> d1, log |-> log1, fin |-> <<>>, err |-> "IndexError"]
        ELSE IF AlreadyReceived(d1, fragment_index)
        THEN [dec |-> d1, log |-> log1, fin |-> <<>>, err |-> ""]
        ELSE LET d2 == [d1 EXCEPT !.fragments_received[fragment_index + 1] = TRUE]
                 r == StoreInfos(d2, message, 0, 8, log1)
             IN  IF r.err # ""
                 THEN [dec |-> r.dec, log |-> r.log, fin |-> <<>>, err |-> r.err]
                 ELSE IF IsComplete(r.dec, message)
                 THEN [dec |-> IF cb_err = "" THEN reset(r.dec) ELSE r.dec,
                       log |-> r.log, fin |-> <<Finished(station, r.dec)>>, err |-> cb_err]
                 ELSE [dec |-> r.dec, log |-> r.log, fin |-> <<>>, err |-> ""]

---------------------------------------------------------------------------
(* MeshProtocol: outbound messages *)

\* Python's x & ~3.
Align4(x) == x - (x % 4)

\* Lines 218-221: the records that fit one packet under transport.size_limit().
per_packet(size_limit) == (size_limit - 12) \div Align4(DescSize + 4)

\* A mutant of FragmentCount: the division of line 222 is not rounded up.
FragmentCount_Floor(n, pp) == n \div pp

\* Line 222.
FragmentCount(n, pp) == (n + pp - 1) \div pp

Min(a, b) == IF a < b THEN a ELSE b

\* Lines 235-238: the bytes of records offset .. offset + num_infos - 1 of sts,
\* a sequence of <<connection_info, index>>.
RECURSIVE RecordBytes(_, _, _)
RecordBytes(sts, offset, num_infos) ==
    IF num_infos = 0 THEN <<>>
    ELSE sts[offset + 1][1] \o <<sts[offset + 1][2], 0>>
         \o RecordBytes(sts, offset + 1, num_infos - 1)

\* Lines 225-238: the payload of fragment i.
JoinResponseFragment(sts, assigned_index, host_idx, pp, fragments, i) ==
    LET offset == i * pp
        remaining == Len(sts) - offset
        num_infos == Min(remaining, pp)
    IN  <<MESSAGE_JOIN_RESPONSE, Len(sts), host_idx, assigned_index,
          fragments, i, num_infos, offset>> \o RecordBytes(sts, offset, num_infos)

\* MeshProtocol.send_join_response(station, assigned_index, host_index, stations):
\* the packets handed to the resender, in order, or the ZeroDivisionError of
\* line 222 when no record fits a packet.
MeshProtocol_send_join_response(size_limit, station, assigned_index, host_idx, sts) ==
    LET pp == per_packet(size_limit)
    IN  IF pp = 0 THEN <<Raise("ZeroDivisionError")>>
        ELSE LET fragments == FragmentCount(Len(sts), pp)
             IN  [k \in 1 .. fragments |->
                     Output("resend", "join_response", station,
                            JoinResponseFragment(sts, assigned_index, host_idx,
                                                 pp, fragments, k - 1))]

\* The payload of a denial: num_stations = 0.
DenyMessage(reason) == <<MESSAGE_JOIN_RESPONSE, 0, 255, 255, reason>>

\* MeshProtocol.send_deny_join(station, reason): sent twice, with flags 0 and 8.
MeshProtocol_send_deny_join(station, reason) ==
    LET data == DenyMessage(reason)
    IN  <<Output("send", "flags0", station, data), Output("send", "flags8", station, data)>>

---------------------------------------------------------------------------
(* MeshProtocol: inbound join responses *)

\* The infos as one sequence of integers: the descriptor bytes and the index of
\* each in turn, None for an empty place.
RECURSIVE FlatInfos(_)
FlatInfos(infos) ==
    IF infos = <<>> THEN <<>>
    ELSE (IF Head(infos) = NoInfo THEN <<None>> ELSE Head(infos)[1] \o <<Head(infos)[2]>>)
         \o FlatInfos(Tail(infos))

\* The on_join_response signal the decoder's `finished` is wired to (line 163),
\* with its arguments: station, then host_index, assigned_index and the infos.
OnJoinResponse(f) ==
    Output("signal", "on_join_response", f.station,
           <<f.host_index, f.assigned_index>> \o FlatInfos(f.infos))

\* MeshProtocol.handle_join_response(station, message) on decoder d: the decoder
\* after it, the calls of `finished` and the outputs in order.  cb_out and
\* cb_err are what the subscriber of on_join_response outputs and the exception
\* it raises ("" for none).
MeshProtocol_handle_join_response(d, station, message, cb_out, cb_err) ==
    IF Byte(message, 1) = 0
    THEN [dec |-> d, fin |-> <<>>,
          out |-> <<Output("signal", "on_join_denied", station, <<Byte(message, 4)>>)>>]
    ELSE LET r == parse(d, station, message, cb_err)
         IN  [dec |-> r.dec, fin |-> r.fin,
              out |-> <<Output("ack", "send_ack", station, message)>> \o r.log
                      \o (IF r.fin = <<>> THEN <<>> ELSE <<OnJoinResponse(r.fin[1])>> \o cb_out)
                      \o (IF r.err = "" THEN <<>> ELSE <<Raise(r.err)>>)]

---------------------------------------------------------------------------
(* The state after construction *)

EmptyMap == [r \in {} |-> None]

NoCall == [sent |-> FALSE, size_limit |-> 0, assigned_index |-> 0, host_idx |-> 0,
           sts |-> <<>>, packets |-> <<>>]

Init ==
    /\ stations = EmptyList
    /\ index = [s \in StationIds |-> Unassigned]
    /\ host_index = None
    /\ update_counter = -1
    /\ expecting_join_response = FALSE
    /\ pending_connect = EmptyMap
    /\ sliding_windows = [i \in Slots |-> None]
    /\ dec = NewDecoder
    /\ out = <<>>
    /\ call = NoCall
    /\ fed = {}

mgr_vars == <<stations, index, host_index, update_counter, expecting_join_response,
              pending_connect, sliding_windows>>

---------------------------------------------------------------------------
(* MeshMgr *)

\* The attributes of MeshMgr, of its StationList and of the station handles, and
\* MeshProtocol.sliding_windows, as one value the handlers below transform.
Mgr ==
    [stations |-> stations, index |-> index, host_index |-> host_index,
     update_counter |-> update_counter,
     expecting_join_response |-> expecting_join_response,
     pending_connect |-> pending_connect, sliding_windows |-> sliding_windows]

\* What a handler leaves: the attributes, its outputs in order, and the
\* exception that ended it ("" for none).
Result(m, o, err) == [mgr |-> m, out |-> o, err |-> err]

Signal(name, station, data) == Output("signal", name, station, data)

\* station.rvcid: a handle's number is its rvcid.
Rvcid(station) == station

\* station.station_address().serialize() and StationAddress.deserialize.
StationAddress(station) == <<station>>

\* station_mgr.find_by_address(address): the station the transport knows under
\* that address, or None.
find_by_address(address) == IF address[1] \in StationIds THEN address[1] ELSE None

\* transport.size_limit()
TransportSizeLimit == 12 + 2 * Align4(DescSize + 4)

is_host(m) == m.index[SelfStation] = m.host_index

\* A mutant of assign_sliding_window: the channel is bound at slot 0, whatever
\* the station's index.
assign_sliding_window_Slot0(m, station) ==
    [m EXCEPT !.sliding_windows[0] = station]

\* MeshProtocol.assign_sliding_window(station)
assign_sliding_window(m, station) ==
    [m EXCEPT !.sliding_windows[m.index[station]] = station]

\* The StationList as MeshProtocol.send_join_response reads it: its occupants
\* in slot order, each by its connection_info and its index field.
StationRecords(m) ==
    LET occupants == FilteredFrom(m.stations, 0)
    IN  [k \in 1 .. Len(occupants) |->
            <<ConnectionInfo(Rvcid(occupants[k])), m.index[occupants[k]]>>]

\* MeshMgr.send_join_response(station)
MeshMgr_send_join_response(m, station) ==
    IF IsFull(m.stations) THEN Result(m, <<>>, "OverflowError")
    ELSE LET idx == next_index(m.stations)
             sent == MeshProtocol_send_join_response(TransportSizeLimit, station, idx,
                                                     m.host_index, StationRecords(m))
             a == StationList_add(m.stations, m.index, station, None)
             m1 == [m EXCEPT !.stations = a.stations, !.index = a.index]
         IN  IF Raised(sent) # <<>> THEN Result(m, <<>>, sent[1].name)
             ELSE Result(assign_sliding_window(m1, station),
                         sent \o <<Output("bind", "assign_sliding_window", station,
                                          <<m1.index[station]>>)>>,
                         "")

\* MeshMgr.send_update_mesh(): the counter is incremented, then
\* MeshProtocol.send_update_mesh raises at its first statement (line 250 adds
\* to `data`, a local not yet assigned).
MeshMgr_send_update_mesh(m) ==
    Result([m EXCEPT !.update_counter = @ + 1], <<>>, "UnboundLocalError")

\* Line 303 reads station_addr, a name bound neither in the handler (its
\* parameter is station_address) nor in the module.
station_addr_bound == FALSE

\* MeshMgr.handle_join_request(station, station_index, station_address)
MeshMgr_handle_join_request(m, station, station_index, station_address) ==
    IF is_host(m)
    THEN IF ~station_addr_bound THEN Result(m, <<>>, "NameError")
         ELSE IF station # find_by_address(station_address)
         THEN Result(m, <<Warning("Received join request with unexpected station address")>>
                        \o MeshProtocol_send_deny_join(station, 2), "")
         ELSE LET r1 == MeshMgr_send_join_response(m, station)
                  r2 == MeshMgr_send_update_mesh(r1.mgr)
              IN  IF r1.err # "" THEN r1
                  ELSE IF r2.err # "" THEN Result(r2.mgr, r1.out \o r2.out, r2.err)
                  ELSE Result(r2.mgr,
                              r1.out \o r2.out \o <<Signal("station_joined", station, <<>>)>>, "")
    ELSE Result(m, <<Warning("Received join request even though we aren't host")>>
                   \o MeshProtocol_send_deny_join(station, 1), "")

\* A mutant of RecordPending: the loop of lines 321-323 records nothing.
RecordPending_Nothing(pending, infos) == pending

\* Lines 321-323: pending_connect after the loop over infos.
RECURSIVE RecordPending(_, _)
RecordPending(pending, infos) ==
    IF infos = <<>> THEN pending
    ELSE RecordPending((InfoRvcid(Head(infos)) :> Head(infos)[2]) @@ pending, Tail(infos))

\* A mutant of MeshMgr_handle_join_response: the test of
\* expecting_join_response is dropped.
MeshMgr_handle_join_response_NoTest(m, station, host_idx, my_index, infos) ==
    LET m1 == [m EXCEPT !.expecting_join_response = FALSE, !.host_index = host_idx]
        a == StationList_add(m1.stations, m1.index, SelfStation, my_index)
    IN  IF a.err # "" THEN Result(m1, <<>>, a.err)
        ELSE Result([m1 EXCEPT !.stations = a.stations, !.index = a.index,
                               !.pending_connect = RecordPending(m1.pending_connect, infos)],
                    <<Signal("join_succeeded", None, FlatInfos(infos))>>, "")

\* A mutant of MeshMgr_handle_join_response: expecting_join_response is not
\* cleared (line 318 is dropped).
MeshMgr_handle_join_response_KeepFlag(m, station, host_idx, my_index, infos) ==
    IF ~m.expecting_join_response
    THEN Result(m, <<Warning("Unexpected join response received")>>, "")
    ELSE LET m1 == [m EXCEPT !.host_index = host_idx]
             a == StationList_add(m1.stations, m1.index, SelfStation, my_index)
         IN  IF a.err # "" THEN Result(m1, <<>>, a.err)
             ELSE Result([m1 EXCEPT !.stations = a.stations, !.index = a.index,
                                    !.pending_connect = RecordPending(m1.pending_connect, infos)],
                         <<Signal("join_succeeded", None, FlatInfos(infos))>>, "")

\* MeshMgr.handle_join_response(station, host_index, my_index, infos)
MeshMgr_handle_join_response(m, station, host_idx, my_index, infos) ==
    IF ~m.expecting_join_response
    THEN Result(m, <<Warning("Unexpected join response received")>>, "")
    ELSE LET m1 == [m EXCEPT !.expecting_join_response = FALSE, !.host_index = host_idx]
             a == StationList_add(m1.stations, m1.index, SelfStation, my_index)
         IN  IF a.err # "" THEN Result(m1, <<>>, a.err)
             ELSE Result([m1 EXCEPT !.stations = a.stations, !.index = a.index,
                                    !.pending_connect = RecordPending(m1.pending_connect, infos)],
                         <<Signal("join_succeeded", None, FlatInfos(infos))>>, "")

\* A mutant of MeshMgr_handle_station_connected: the is_usable test of line 329
\* is dropped and the station is put in the slot whoever occupies it.
MeshMgr_handle_station_connected_Overwrite(m, station) ==
    IF Rvcid(station) \in DOMAIN m.pending_connect
    THEN LET idx == m.pending_connect[Rvcid(station)]
             m1 == [m EXCEPT !.pending_connect =
                        [r \in (DOMAIN @) \ {Rvcid(station)} |-> @[r]]]
             m2 == [m1 EXCEPT !.stations[idx] = station, !.index[station] = idx]
         IN  Result([m2 EXCEPT !.sliding_windows[idx] = station],
                    <<Output("bind", "assign_sliding_window", station, <<idx>>),
                      Signal("station_joined", station, <<>>)>>, "")
    ELSE Result(m, <<>>, "")

\* MeshMgr.handle_station_connected(station)
MeshMgr_handle_station_connected(m, station) ==
    IF Rvcid(station) \in DOMAIN m.pending_connect
    THEN LET idx == m.pending_connect[Rvcid(station)]
             m1 == [m EXCEPT !.pending_connect =
                        [r \in (DOMAIN @) \ {Rvcid(station)} |-> @[r]]]
             a == StationList_add(m1.stations, m1.index, station, idx)
             m2 == [m1 EXCEPT !.stations = a.stations, !.index = a.index]
         IN  IF idx \notin Slots THEN Result(m1, <<>>, "IndexError")
             ELSE IF is_usable(m1.stations, idx)
             THEN Result(assign_sliding_window(m2, station),
                         <<Output("bind", "assign_sliding_window", station, <<idx>>),
                           Signal("station_joined", station, <<>>)>>, "")
             ELSE Result(m1, <<Warning("Tried to assign station to occupied index")>>, "")
    ELSE Result(m, <<>>, "")

\* MeshMgr.handle_join_denied(station, reason)
MeshMgr_handle_join_denied(m, station, reason) ==
    Result(m, <<Signal("join_denied", station, <<>>)>>, "")

\* MeshMgr.create()
MeshMgr_create(m) ==
    LET a == StationList_add(m.stations, m.index, SelfStation, None)
    IN  IF a.err # "" THEN Result(m, <<>>, a.err)
        ELSE Result([m EXCEPT !.stations = a.stations, !.index = a.index,
                              !.host_index = a.index[SelfStation]], <<>>, "")

\* MeshMgr.join(host_station), with MeshProtocol.send_join_request
MeshMgr_join(m, host_station) ==
    Result([m EXCEPT !.expecting_join_response = TRUE],
           <<Output("resend", "join_request", host_station,
                    <<MESSAGE_JOIN_REQUEST, m.index[SelfStation], 0, 0>>
                    \o StationAddress(SelfStation))>>, "")

\* The attributes after a handler, and its outputs after `before`.
Finish(before, r) ==
    /\ stations' = r.mgr.stations
    /\ index' = r.mgr.index
    /\ host_index' = r.mgr.host_index
    /\ update_counter' = r.mgr.update_counter
    /\ expecting_join_response' = r.mgr.expecting_join_response
    /\ pending_connect' = r.mgr.pending_connect
    /\ sliding_windows' = r.mgr.sliding_windows
    /\ out' = before \o r.out \o (IF r.err = "" THEN <<>> ELSE <<Raise(r.err)>>)

---------------------------------------------------------------------------
(* Spec: one MeshMgr with its MeshProtocol and JoinResponseDecoder, under *)
(* any sequence of calls, inbound messages and station-connected events.  *)

\* The remote stations.
Peers == StationIds \ {SelfStation}

\* The addresses a join request claims: those of the stations, and one that
\* the transport knows no station under.
Addresses == {StationAddress(s) : s \in StationIds} \cup {<<0>>}

\* The join request of a station that claims `address`.
JoinRequestMessage(station_index, address) ==
    <<MESSAGE_JOIN_REQUEST, station_index, 0, 0>> \o address

\* A join-response message: fragment i of `fragments`, carrying records
\* offs .. offs + len - 1 of list, a sequence of <<rvcid, index>>.
ResponseMessage(list, host_idx, assigned, fragments, i, offs, len) ==
    <<MESSAGE_JOIN_RESPONSE, Len(list), host_idx, assigned, fragments, i, len, offs>>
    \o RecordBytes([k \in 1 .. Len(list) |-> <<ConnectionInfo(list[k][1]), list[k][2]>>],
                   offs, len)

\* The station lists of the join responses received: the host (rvcid 2) at
\* index 0 and this station at the assigned index; the same with a third
\* station at index 2.
TwoStations(assigned) == <<<<SelfStation + 1, 0>>, <<SelfStation, assigned>>>>

ThreeStations == <<<<SelfStation + 1, 0>>, <<SelfStation, 1>>, <<SelfStation + 2, 2>>>>

\* The join-response messages received: the two-station list with assigned
\* index 0 or 1 in one fragment, with assigned index 1 in two fragments, the
\* three-station list in one fragment, and a denial.
MgrMessages ==
    {ResponseMessage(TwoStations(a), 0, a, 1, 0, 0, 2) : a \in 0 .. 1}
    \cup {ResponseMessage(TwoStations(1), 0, 1, 2, i, i, 1) : i \in 0 .. 1}
    \cup {ResponseMessage(ThreeStations, 0, 1, 1, 0, 0, 3)}
    \cup {DenyMessage(1)}

\* The occupancy up to which create() is called.
MaxRegistered == 2

\* MeshMgr.create()
Create ==
    /\ StationList_len(stations) < MaxRegistered
    /\ Finish(<<Output("call", "create", None, <<>>)>>, MeshMgr_create(Mgr))
    /\ UNCHANGED <<dec, call, fed>>

\* MeshMgr.join(host_station)
Join(host_station) ==
    /\ Finish(<<Output("call", "join", host_station, <<>>)>>, MeshMgr_join(Mgr, host_station))
    /\ UNCHANGED <<dec, call, fed>>

\* MeshProtocol.handle_join_request(station, message), which acknowledges the
\* message and signals on_join_request to MeshMgr.handle_join_request.
RecvJoinRequest(station, message) ==
    LET station_address == Slice(message, 4)
        station_index == Byte(message, 1)
    IN  /\ Finish(<<Output("ack", "send_ack", station, message),
                    Signal("on_join_request", station, <<station_index>> \o station_address)>>,
                  MeshMgr_handle_join_request(Mgr, station, station_index, station_address))
        /\ UNCHANGED <<dec, call, fed>>

\* MeshProtocol.handle_join_response(station, message): a denial is signalled
\* to MeshMgr.handle_join_denied; a fragment goes to the decoder, whose
\* `finished` reaches MeshMgr.handle_join_response.
RecvJoinResponse(station, message) ==
    LET probe == MeshProtocol_handle_join_response(dec, station, message, <<>>, "")
        f == probe.fin[1]
        h == IF probe.fin # <<>>
             THEN MeshMgr_handle_join_response(Mgr, f.station, f.host_index,
                                               f.assigned_index, f.infos)
             ELSE IF Byte(message, 1) = 0
             THEN MeshMgr_handle_join_denied(Mgr, station, Byte(message, 4))
             ELSE Result(Mgr, <<>>, "")
        r == MeshProtocol_handle_join_response(dec, station, message, h.out, h.err)
    IN  /\ dec' = r.dec
        /\ Finish(IF Byte(message, 1) = 0 THEN r.out \o h.out ELSE r.out,
                  Result(h.mgr, <<>>, ""))
        /\ UNCHANGED <<call, fed>>

\* The station_connected signal of the station manager
StationConnected(station) ==
    /\ Finish(<<Signal("station_connected", station, <<>>)>>,
              MeshMgr_handle_station_connected(Mgr, station))
    /\ UNCHANGED <<dec, call, fed>>

\* MeshProtocol.handle_update_mesh(station, message): prints a line.
RecvUpdateMesh(station) ==
    /\ out' = <<Output("print", "Mesh update", station, <<MESSAGE_UPDATE_MESH>>)>>
    /\ UNCHANGED <<mgr_vars, dec, call, fed>>

Next ==
    \/ Create
    \/ \E host_station \in Peers : Join(host_station)
    \/ \E station \in Peers, address \in Addresses :
          RecvJoinRequest(station, JoinRequestMessage(Unassigned, address))
    \/ \E station \in Peers, message \in MgrMessages : RecvJoinResponse(station, message)
    \/ \E station \in Peers : StationConnected(station)
    \/ \E station \in Peers : RecvUpdateMesh(station)

Spec == Init /\ [][Next]_vars

---------------------------------------------------------------------------
(* SpecSplit: one MeshProtocol.send_join_response call, and its packets *)
(* delivered to a JoinResponseDecoder, each once, in any order.         *)

\* The longest station list sent.
MaxSplitN == 5

\* The largest number of records per packet.
MaxPerPacket == 3

\* The station lists sent: n records <<connection_info, index>>, all distinct.
SplitList(n, v) ==
    [j \in 1 .. n |-> IF v = 0 THEN <<ConnectionInfo(10 + j), j - 1>>
                      ELSE <<ConnectionInfo(40 - j), n - j>>]

\* transport.size_limit() for which pp records fit a packet.
SizeLimitFor(pp) == 12 + pp * Align4(DescSize + 4)

\* The peer the packets are sent to, and the peer they are received from.
SplitPeer == SelfStation + 1

SplitSend(n, v, pp, assigned, host) ==
    /\ ~call.sent
    /\ LET sent == MeshProtocol_send_join_response(SizeLimitFor(pp), SplitPeer,
                                                   assigned, host, SplitList(n, v))
       IN  /\ call' = [sent |-> TRUE, size_limit |-> SizeLimitFor(pp),
                       assigned_index |-> assigned, host_idx |-> host,
                       sts |-> SplitList(n, v),
                       packets |-> SelectSeq(sent, LAMBDA o : o.op = "resend")]
           /\ out' = sent
    /\ UNCHANGED <<mgr_vars, dec, fed>>

SplitFeed(k) ==
    /\ call.sent
    /\ k \in (1 .. Len(call.packets)) \ fed
    /\ LET r == MeshProtocol_handle_join_response(dec, SplitPeer, call.packets[k].data, <<>>, "")
       IN  /\ dec' = r.dec
           /\ out' = r.out
    /\ fed' = fed \cup {k}
    /\ UNCHANGED <<mgr_vars, call>>

SplitNext ==
    \/ \E n \in 0 .. MaxSplitN, v \in 0 .. 1, pp \in 0 .. MaxPerPacket,
          assigned \in 1 .. 2, host \in 0 .. 1 : SplitSend(n, v, pp, assigned, host)
    \/ \E k \in 1 .. MaxSplitN : SplitFeed(k)

SpecSplit == Init /\ [][SplitNext]_vars

---------------------------------------------------------------------------
(* Claims checked under SpecSplit *)

\* The least k with k * p >= n.
CeilDiv(n, p) == CHOOSE k \in 0 .. n : k * p >= n /\ \A j \in 0 .. n : j * p >= n => k <= j

\* The on_join_response signals among the outputs of the last operation.
Signals(o, name) == SelectSeq(o, LAMBDA e : e.op = "signal" /\ e.name = name)

\* The calls of `finished` made when packets k, k + 1, ... are delivered in
\* that order to decoder d.
RECURSIVE FeedInOrder(_, _, _)
FeedInOrder(d, packets, k) ==
    IF k > Len(packets) THEN <<>>
    ELSE LET r == parse(d, SplitPeer, packets[k].data, "")
         IN  r.fin \o FeedInOrder(r.dec, packets, k + 1)

AllFed == fed = 1 .. Len(call.packets)

\* C1: when every fragment of one join response (one peer, one header, ranges
\* partitioning [0, num_stations)) has been delivered exactly once from Idle, in
\* whatever order, `finished` is emitted by the last delivery with the same
\* host_index, assigned_index and infos as delivery in ascending fragment order
\* emits; no earlier delivery emits it.
C1_AnyOrderSameResult ==
    (call.sent /\ Len(call.packets) >= 1) =>
        LET inorder == FeedInOrder(NewDecoder, call.packets, 1)
        IN  /\ Len(inorder) = 1
            /\ AllFed => Signals(out, "on_join_response") = <<OnJoinResponse(inorder[1])>>
            /\ ~AllFed => Signals(out, "on_join_response") = <<>>

\* C1's case: three fragments of a five-station response, all delivered, the
\* fragment with the highest index not last.
C1_Witness ==
    /\ call.sent /\ Len(call.sts) = 5 /\ Len(call.packets) = 3 /\ AllFed
    /\ Signals(out, "on_join_response") # <<>>
    /\ out[1].op = "ack" /\ Byte(out[1].data, 5) = 0

\* C4: send_join_response for N stations and per-packet capacity P >= 1 sends
\* exactly ceil(N / P) packets; packet k has fragmentIndex k, fragmentCount
\* ceil(N / P) and numStations N; every range [recordOffset, recordOffset +
\* recordsInFragment) is non-empty, of size at most P and inside [0, N), and
\* every index of [0, N) lies in exactly one range.
C4_FragmentsPartition ==
    (call.sent /\ per_packet(call.size_limit) >= 1) =>
        LET N == Len(call.sts)
            P == per_packet(call.size_limit)
            F == CeilDiv(N, P)
            msg(k) == call.packets[k].data
            lo(k) == Byte(msg(k), 7)
            hi(k) == Byte(msg(k), 7) + Byte(msg(k), 6)
        IN  /\ Len(call.packets) = F
            /\ \A k \in 1 .. Len(call.packets) :
                  /\ Byte(msg(k), 0) = MESSAGE_JOIN_RESPONSE
                  /\ Byte(msg(k), 1) = N
                  /\ Byte(msg(k), 2) = call.host_idx
                  /\ Byte(msg(k), 3) = call.assigned_index
                  /\ Byte(msg(k), 4) = F
                  /\ Byte(msg(k), 5) = k - 1
                  /\ lo(k) < hi(k) /\ hi(k) - lo(k) <= P /\ hi(k) <= N
                  /\ Len(msg(k)) = 8 + (hi(k) - lo(k)) * StationInfo_sizeof
            /\ \A x \in 0 .. (N - 1) :
                  Cardinality({k \in 1 .. Len(call.packets) : lo(k) <= x /\ x < hi(k)}) = 1

\* C4's case: five stations, two records per packet, three packets.
C4_Witness ==
    /\ call.sent /\ Len(call.sts) = 5 /\ per_packet(call.size_limit) = 2
    /\ Len(call.packets) = 3
    /\ Byte(call.packets[3].data, 7) = 4 /\ Byte(call.packets[3].data, 6) = 1

---------------------------------------------------------------------------
(* SpecReg: a StationList under any sequence of add calls *)

\* The explicit indices passed to add.
RegIndices == {0, 1, NumSlots - 1}

\* With RegMix or more slots occupied, only SelfStation is added without an
\* index (this keeps the registries that fill all 32 slots within reach).
RegMix == 2

RegStations == {SelfStation, SelfStation + 1}

\* stations.add(station, i); i = None is add(station).
RegAdd(station, i) ==
    /\ (i = None /\ station # SelfStation) => StationList_len(stations) < RegMix
    /\ LET r == StationList_add(stations, index, station, i)
       IN  /\ stations' = r.stations
           /\ index' = r.index
           /\ out' = <<Output("call", "add", station, <<i>>)>>
                     \o (IF r.err = "" THEN <<>> ELSE <<Raise(r.err)>>)
    /\ UNCHANGED <<host_index, update_counter, expecting_join_response, pending_connect,
                   sliding_windows, dec, call, fed>>

RegNext == \E station \in RegStations, i \in RegIndices \cup {None} : RegAdd(station, i)

SpecReg == Init /\ [][RegNext]_vars

\* C5 (the steps): an add with an explicit index whose slot is occupied raises
\* IndexError (SlotOccupied), an add without index on a full registry raises
\* OverflowError (Full), and neither changes a slot or an index field; an add
\* without index that succeeds fills the lowest slot that was free, changes no
\* other slot, and sets the station's index field to that slot.
C5_AddStep ==
    \A station \in RegStations, i \in RegIndices \cup {None} :
        RegAdd(station, i) =>
            /\ (i # None /\ stations[i] # None) =>
                  /\ Raised(out') = <<Raise("IndexError")>>
                  /\ stations' = stations /\ index' = index
            /\ (i = None /\ \A k \in Slots : stations[k] # None) =>
                  /\ Raised(out') = <<Raise("OverflowError")>>
                  /\ stations' = stations /\ index' = index
            /\ (i = None /\ Raised(out') = <<>>) =>
                  \E j \in Slots :
                      /\ stations[j] = None /\ \A k \in 0 .. (j - 1) : stations[k] # None
                      /\ stations' = [stations EXCEPT ![j] = station]
                      /\ index' = [index EXCEPT ![station] = j]

\* C5: after any sequence of StationList.add calls at most 32 slots are
\* occupied, and every add call behaves as C5_AddStep says.
C5_AddNeverOverfills ==
    /\ [](StationList_len(stations) <= 32 /\ DOMAIN stations = 0 .. 31)
    /\ [][C5_AddStep]_vars

\* C5's case: the registry is full and the last add, without index, raised Full.
C5_Witness ==
    /\ \A k \in Slots : stations[k] # None
    /\ out = <<Output("call", "add", SelfStation, <<None>>), Raise("OverflowError")>>

---------------------------------------------------------------------------
(* SpecDec: MeshProtocol.handle_join_response fed any join-response      *)
(* messages, well formed or not, by two peers.                           *)

\* num_stations of the header most messages carry.
DecN == 2

\* A header is <<num_stations, host_index, assigned_index, fragment_count>>.
BaseHeader == <<DecN, 0, 1, 2>>

\* The headers that differ from BaseHeader in one field.
VariantHeaders == {<<DecN + 1, 0, 1, 2>>, <<DecN, 1, 1, 2>>, <<DecN, 0, 2, 2>>, <<DecN, 0, 1, 3>>}

\* The record a message of variant v carries for place `slot`.
DecRecord(v, slot) == <<ConnectionInfo(10 * (v + 1) + slot), slot>>

\* A join-response message: header h, fragment_index i, `len` records for the
\* places from offs on, the last `cut` bytes of the payload missing.
DecFragment(h, i, len, offs, v, cut) ==
    LET payload == RecordBytes([j \in 1 .. (offs + len) |-> DecRecord(v, j - 1)], offs, len)
    IN  <<MESSAGE_JOIN_RESPONSE, h[1], h[2], h[3], h[4], i, len, offs>>
        \o SubSeq(payload, 1, Len(payload) - cut)

\* The messages delivered: for BaseHeader every fragment index up to 2 (one past
\* the count), every length up to num_stations and every offset below it (so
\* some ranges overlap and some overrun num_stations), in two variants of
\* content, and the same with the last record cut short; for the other headers
\* the two one-record fragments; and a denial.
DecMessages ==
    {DecFragment(BaseHeader, i, len, offs, v, 0) :
        i \in 0 .. 2, len \in 0 .. DecN, offs \in 0 .. (DecN - 1), v \in 0 .. 1}
    \cup {DecFragment(BaseHeader, i, len, offs, 0, 2) :
        i \in 0 .. 1, len \in 1 .. DecN, offs \in 0 .. (DecN - 1)}
    \cup {DecFragment(h, i, 1, i, 0, 0) : h \in VariantHeaders, i \in 0 .. 1}
    \cup {DenyMessage(1)}

DecPeers == {SelfStation + 1, SelfStation + 2}

DecHandle(station, message) ==
    /\ LET r == MeshProtocol_handle_join_response(dec, station, message, <<>>, "")
       IN  /\ dec' = r.dec
           /\ out' = r.out
    /\ UNCHANGED <<mgr_vars, call, fed>>

DecNext == \E station \in DecPeers, message \in DecMessages : DecHandle(station, message)

SpecDec == Init /\ [][DecNext]_vars

---------------------------------------------------------------------------
(* Claims checked under SpecDec *)

HeaderOf(message) == <<Byte(message, 1), Byte(message, 2), Byte(message, 3), Byte(message, 4)>>

ContextOf(d) == <<d.num_stations, d.host_index, d.assigned_index, d.num_fragments>>

Collecting(d) == d.station # None

\* The places of infos that hold a record.
Populated(d) == {j \in 0 .. (Len(d.infos) - 1) : d.infos[j + 1] # NoInfo}

\* The fragment indices marked received.
Marked(d) == {k \in 0 .. (Len(d.fragments_received) - 1) : d.fragments_received[k + 1]}

\* Whether the last operation was a join-response fragment handed to the decoder.
WasFragment(o) == o # <<>> /\ o[1].op = "ack"

HasWarning(o, text) == \E k \in 1 .. Len(o) : o[k].op = "warning" /\ o[k].name = text

\* The context the decoder judges a fragment of `station` in: its own when the
\* fragment is compatible with it, a fresh one otherwise.
PlacesEmptyBefore(d, station, message) ==
    IF Collecting(d) /\ d.station = station /\ ContextOf(d) = HeaderOf(message)
    THEN (0 .. (d.num_stations - 1)) \ Populated(d)
    ELSE 0 .. (Byte(message, 1) - 1)

\* C2 (one step): `finished` is emitted only with every place of infos filled,
\* only by a fragment that fills a place empty until then, and leaves the
\* decoder Idle; and no step leaves the decoder Collecting with every place of
\* [0, num_stations) filled, so full coverage always emits.
C2_Step ==
    WasFragment(out') =>
        LET station == out'[1].station
            message == out'[1].data
            range == Byte(message, 7) .. (Byte(message, 7) + Byte(message, 6) - 1)
            emitted == Signals(out', "on_join_response")
        IN  /\ emitted # <<>> =>
                  /\ Len(emitted) = 1
                  /\ Populated(dec') = 0 .. (Byte(message, 1) - 1)
                  /\ ~Collecting(dec')
                  /\ range \cap PlacesEmptyBefore(dec, station, message) # {}
            /\ Collecting(dec') => Populated(dec') # 0 .. (dec'.num_stations - 1)

\* C2: JoinResponseDecoder emits `finished` if and only if every index of
\* [0, num_stations) of the current context is covered by an accepted fragment:
\* never while a place is empty, by the fragment that fills the last empty
\* place, and it is Idle right after.
C2_FinishedIffCovered == [][C2_Step]_vars

\* C3 (one step): while Collecting, a fragment of another peer, or of the
\* tracked peer with another header, logs the incompatibility and leaves a
\* context made from its header, with no mark but its own and no record but
\* those it carries; a fragment of the tracked peer with the same header logs
\* nothing, and keeps every mark and every filled place.
C3_Step ==
    (Collecting(dec) /\ WasFragment(out')) =>
        LET station == out'[1].station
            message == out'[1].data
            offs == Byte(message, 7)
            range == offs .. (offs + Byte(message, 6) - 1)
            incompatible == "Incompatible join response fragment received"
        IN  IF station # dec.station \/ dec.num_stations # Byte(message, 1)
               \/ dec.host_index # Byte(message, 2) \/ dec.assigned_index # Byte(message, 3)
               \/ dec.num_fragments # Byte(message, 4)
            THEN /\ HasWarning(out', incompatible)
                 /\ ContextOf(dec') = HeaderOf(message)
                 /\ dec'.station \in {station, None}
                 /\ Len(dec'.fragments_received) = Byte(message, 4)
                 /\ Len(dec'.infos) = Byte(message, 1)
                 /\ Marked(dec') \subseteq {Byte(message, 5)}
                 /\ Populated(dec') \subseteq range
                 /\ \A j \in Populated(dec') :
                       dec'.infos[j + 1] =
                           StationInfo_deserialize(Slice(message, 8 + (j - offs) * StationInfo_sizeof))
            ELSE /\ ~HasWarning(out', incompatible)
                 /\ ContextOf(dec') = ContextOf(dec)
                 /\ Marked(dec) \subseteq Marked(dec')
                 /\ Populated(dec) \subseteq Populated(dec')

\* C3: an incompatible fragment (other peer, or other num_stations, host_index,
\* assigned_index or fragment_count) discards the partial state and starts anew
\* from its header; a compatible one never resets the context.
C3_IncompatibleResets == [][C3_Step]_vars

\* C3's case: the incompatibility was logged, and the context holds the one
\* mark and the one record of the fragment that caused it.
C3_Witness ==
    /\ HasWarning(out, "Incompatible join response fragment received")
    /\ Collecting(dec) /\ Marked(dec) = {1} /\ Populated(dec) = {1}
    /\ dec.station = out[1].station /\ ContextOf(dec) # BaseHeader

---------------------------------------------------------------------------
(* Claims checked under Spec *)

\* Whether the last operation was a join request handed to MeshMgr.
IsJoinRequest(o) ==
    o # <<>> /\ o[1].op = "ack" /\ Byte(o[1].data, 0) = MESSAGE_JOIN_REQUEST

\* The entries of o with the given op and name.
Entries(o, op, name) == SelectSeq(o, LAMBDA e : e.op = op /\ e.name = name)

\* The index the next add without index takes: the lowest free slot.
LowestFree(st) == CHOOSE j \in Slots : st[j] = None /\ \A k \in 0 .. (j - 1) : st[k] # None

\* C6: in every state reachable by MeshMgr operations, every occupied registry
\* slot i holds a station whose index field is i, so that no station handle
\* occupies two slots.
C6_SlotHoldsItsIndex ==
    /\ \A i \in Slots : stations[i] # None => index[stations[i]] = i
    /\ \A i, j \in Slots : (stations[i] # None /\ stations[i] = stations[j]) => i = j

\* C7 (one step): a join request received by a host from a station whose
\* claimed address the transport knows another station (or none) under is
\* answered with a denial of reason 2, one received by a station that is not
\* host with a denial of reason 1; in both cases no attribute of MeshMgr, no
\* registry slot, index field, channel binding or update_counter changes, and
\* no join-response fragment and no station-joined event is produced.
C7_Step ==
    IsJoinRequest(out') =>
        LET station == out'[1].station
            address == Slice(out'[1].data, 4)
            host == index[SelfStation] = host_index
            mismatch == station # find_by_address(address)
            sends == SelectSeq(out', LAMBDA e : e.op = "send")
            denied(reason) ==
                /\ Len(sends) >= 1
                /\ \A k \in 1 .. Len(sends) :
                      /\ sends[k].station = station
                      /\ sends[k].data = <<MESSAGE_JOIN_RESPONSE, 0, 255, 255, reason>>
        IN  /\ (host /\ mismatch) => denied(2)
            /\ ~host => denied(1)
            /\ ((host /\ mismatch) \/ ~host) =>
                  /\ UNCHANGED mgr_vars
                  /\ Entries(out', "resend", "join_response") = <<>>
                  /\ Entries(out', "bind", "assign_sliding_window") = <<>>
                  /\ Entries(out', "signal", "station_joined") = <<>>

\* C7: a join request is denied with reason 2 when this station is host and the
\* claimed address does not match, with reason 1 when it is not host, and in
\* both cases nothing is registered, bound, counted or sent but the denial.
C7_DeniedRequests == [][C7_Step]_vars

\* C8 (one step): a completed join response signalled while
\* expecting_join_response is false changes no attribute of MeshMgr (host_index,
\* the registry and the index fields, pending_connect, the flag), is logged as
\* unexpected, and raises no join_succeeded.
C8_Step ==
    (Entries(out', "signal", "on_join_response") # <<>> /\ ~expecting_join_response) =>
        /\ UNCHANGED mgr_vars
        /\ HasWarning(out', "Unexpected join response received")
        /\ Entries(out', "signal", "join_succeeded") = <<>>
        /\ Raised(out') = <<>>

\* C8: a completed join response that reaches MeshMgr while
\* expecting_join_response is false is ignored.
C8_StrayResponseIgnored == [][C8_Step]_vars

\* C8's case: a join response completed with no join outstanding, after a
\* create, and was logged as unexpected.
C8_Witness ==
    /\ Entries(out, "signal", "on_join_response") # <<>>
    /\ HasWarning(out, "Unexpected join response received")
    /\ ~expecting_join_response /\ host_index = 0 /\ stations[0] = SelfStation

\* C9 (one step): a call of join made while expecting_join_response is true
\* sends no join request.
C9_Step ==
    (expecting_join_response /\ out' # <<>> /\ out'[1].op = "call" /\ out'[1].name = "join") =>
        Entries(out', "resend", "join_request") = <<>>

\* C9: at most one join attempt is outstanding: join called while
\* expecting_join_response is true does not send a second join request.
C9_OneOutstandingJoin == [][C9_Step]_vars

\* C10 (one step): a join request received by a host, from the station the
\* transport knows under the claimed address, with a free registry slot, leaves
\* the requester registered at the lowest slot that was free, and sends
\* join-response fragments that all carry that index as assignedIndex, the
\* host's index as hostIndex, and together one record for every station of the
\* registry after the admission, the requester's among them.
C10_Step ==
    (/\ IsJoinRequest(out')
     /\ index[SelfStation] = host_index
     /\ out'[1].station = find_by_address(Slice(out'[1].data, 4))
     /\ ~IsFull(stations)) =>
        LET station == out'[1].station
            j == LowestFree(stations)
            frags == Entries(out', "resend", "join_response")
            records(k) == {Byte(frags[k].data, 8 + i * StationInfo_sizeof) :
                              i \in 0 .. (Byte(frags[k].data, 6) - 1)}
        IN  /\ stations' = [stations EXCEPT ![j] = station]
            /\ index'[station] = j
            /\ frags # <<>>
            /\ \A k \in 1 .. Len(frags) :
                  /\ Byte(frags[k].data, 3) = j
                  /\ Byte(frags[k].data, 2) = index[SelfStation]
                  /\ Byte(frags[k].data, 1) = StationList_len(stations')
            /\ \E k \in 1 .. Len(frags) : Rvcid(station) \in records(k)

\* C10: when the host admits a join request the requester is registered at the
\* lowest free index, every fragment carries that index and the host's index,
\* and the record list names every station including the requester.
C10_AdmissionResponse == [][C10_Step]_vars

---------------------------------------------------------------------------
(* Claims checked under Spec: the client side of a join *)

\* The records <<rvcid, index>> among the arguments of an on_join_response
\* signal (after host_index and assigned_index).
ResponseRecords(sig) ==
    {<<sig.data[2 + j * (DescSize + 1) + 1], sig.data[2 + (j + 1) * (DescSize + 1)]>> :
        j \in 0 .. ((Len(sig.data) - 2) \div (DescSize + 1) - 1)}

\* Whether the last operation was a station_connected event.
IsStationConnected(o) == o # <<>> /\ o[1].op = "signal" /\ o[1].name = "station_connected"

\* One step of the client side of a join.  A join response that completes
\* while a join is outstanding clears the flag, takes the response's
\* host_index, registers this station at the assigned index, records for the
\* host's record its identity -> its index in pending_connect, and raises
\* join_succeeded once.  A station_connected event of a station whose identity
\* is pending registers it at the pending index, binds its channel there,
\* removes the entry and raises station_joined once.  With slots_free, both
\* are required only when the slot to fill is a free slot of the registry.
ClientJoinStep(slots_free) ==
    /\ LET sigs == Entries(out', "signal", "on_join_response")
           host == sigs[1].data[1]
           assigned == sigs[1].data[2]
       IN  (/\ sigs # <<>>
            /\ expecting_join_response
            /\ slots_free => (assigned \in Slots /\ stations[assigned] = None)) =>
               /\ ~expecting_join_response'
               /\ host_index' = host
               /\ stations' = [stations EXCEPT ![assigned] = SelfStation]
               /\ index' = [index EXCEPT ![SelfStation] = assigned]
               /\ \A rec \in ResponseRecords(sigs[1]) :
                     rec[2] = host =>
                         /\ rec[1] \in DOMAIN pending_connect'
                         /\ pending_connect'[rec[1]] = host
               /\ Len(Entries(out', "signal", "join_succeeded")) = 1
    /\ LET station == out'[1].station
           idx == pending_connect[Rvcid(station)]
       IN  (/\ IsStationConnected(out')
            /\ Rvcid(station) \in DOMAIN pending_connect
            /\ slots_free => (idx \in Slots /\ stations[idx] = None)) =>
               /\ stations' = [stations EXCEPT ![idx] = station]
               /\ index' = [index EXCEPT ![station] = idx]
               /\ sliding_windows' = [sliding_windows EXCEPT ![idx] = station]
               /\ DOMAIN pending_connect' = DOMAIN pending_connect \ {Rvcid(station)}
               /\ \A r \in DOMAIN pending_connect' : pending_connect'[r] = pending_connect[r]
               /\ Len(Entries(out', "signal", "station_joined")) = 1

\* C11 (as amended): after join(host), a join response that completes with
\* the assigned slot free leaves expecting_join_response false, host_index the
\* response's, this station registered at the assigned index and the host's
\* identity pending under the host's index; a station_connected event for a
\* pending identity whose slot is free then registers that station there, binds
\* its channel, removes the entry and raises station_joined exactly once.
C11_ClientJoin == [][ClientJoinStep(TRUE)]_vars

\* C11 (as stated): the same without the condition that the slot is free.
C11_ClientJoinAnySlot == [][ClientJoinStep(FALSE)]_vars

\* C11's case: after join and a completed two-station response that assigned
\* index 1, the host (station 2, index 0) connected: it is registered at 0 with
\* its channel, no longer pending, and station_joined was raised.
C11_Witness ==
    /\ IsStationConnected(out) /\ out[1].station = SelfStation + 1
    /\ Entries(out, "signal", "station_joined") # <<>>
    /\ ~expecting_join_response /\ host_index = 0
    /\ stations[1] = SelfStation /\ stations[0] = SelfStation + 1
    /\ sliding_windows[0] = SelfStation + 1
    /\ Rvcid(SelfStation + 1) \notin DOMAIN pending_connect

\* C12: in every reachable state a reliable channel is bound at index i only
\* if registry slot i holds a station, and that channel was made for the
\* station that occupies slot i.
C12_ChannelsMatchRegistry ==
    \A i \in Slots :
        sliding_windows[i] # None =>
            /\ stations[i] # None
            /\ sliding_windows[i] = stations[i]

\* C12's case: two stations connected after a three-station join response;
\* channels are bound at the indices 0 and 2 they were registered at.
C12_Witness ==
    /\ sliding_windows[0] = SelfStation + 1 /\ stations[0] = SelfStation + 1
    /\ sliding_windows[2] = SelfStation + 2 /\ stations[2] = SelfStation + 2
    /\ stations[1] = SelfStation

\* C13 (one step): update_counter is raised by one by a join request the host
\* admits (host, the claimed address matching, a free slot), which broadcasts an
\* update-mesh message carrying the new value, and is changed by no other
\* operation.
C13_Step ==
    LET admitted == /\ IsJoinRequest(out')
                    /\ index[SelfStation] = host_index
                    /\ out'[1].station = find_by_address(Slice(out'[1].data, 4))
                    /\ ~IsFull(stations)
        broadcasts == SelectSeq(out', LAMBDA e : e.name = "update_mesh")
    IN  IF admitted
        THEN /\ update_counter' = update_counter + 1
             /\ Len(broadcasts) >= 1
             /\ \A k \in 1 .. Len(broadcasts) :
                   /\ Byte(broadcasts[k].data, 0) = MESSAGE_UPDATE_MESH
                   /\ Byte(broadcasts[k].data, 4) = update_counter'
        ELSE update_counter' = update_counter

\* C13: update_counter starts at -1 and is raised by exactly one by each
\* admitted join request and by nothing else; each update-mesh broadcast carries
\* the value just after the increment.
C13_CounterCountsAdmissions == (update_counter = -1) /\ [][C13_Step]_vars

---------------------------------------------------------------------------
(* SpecDup: the packets of one MeshProtocol.send_join_response call        *)
(* delivered to a JoinResponseDecoder in any order, any number of times.   *)

\* The longest station list sent.
MaxDupN == 3

\* The number of deliveries.
MaxDeliveries == 5

\* The delivery of packet k of the call.  fed is the log of the deliveries:
\* <<position, packet, whether `finished` was emitted>>.
DupFeed(k) ==
    /\ call.sent
    /\ k \in 1 .. Len(call.packets)
    /\ Cardinality(fed) < MaxDeliveries
    /\ LET r == MeshProtocol_handle_join_response(dec, SplitPeer, call.packets[k].data, <<>>, "")
       IN  /\ dec' = r.dec
           /\ out' = r.out
           /\ fed' = fed \cup {<<Cardinality(fed) + 1, k, r.fin # <<>>>>}
    /\ UNCHANGED <<mgr_vars, call>>

DupNext ==
    \/ \E n \in 1 .. MaxDupN, pp \in 1 .. 2 : SplitSend(n, 0, pp, 1, 0)
    \/ \E k \in 1 .. MaxDupN : DupFeed(k)

SpecDup == Init /\ [][DupNext]_vars

---------------------------------------------------------------------------
(* Claims checked under SpecDup *)

\* The packets delivered at the positions a .. b of the log.
DeliveredIn(a, b) == {p[2] : p \in {q \in fed : a <= q[1] /\ q[1] <= b}}

\* The positions of the log at which `finished` was emitted.
EmittedAt == {p[1] : p \in {q \in fed : q[3]}}

AllPackets == 1 .. Len(call.packets)

\* The position after the last emission before position i (1 if none).
RoundStart(i) ==
    LET before == {e \in EmittedAt : e < i}
    IN  IF before = {} THEN 1 ELSE 1 + CHOOSE e \in before : \A x \in before : x <= e

\* C14 (one step): a fragment whose fragment_index is marked received in the
\* context being collected changes no stored record and no mark, and emits
\* and logs nothing: it is only acknowledged.
C14_DuplicateStep ==
    (/\ WasFragment(out')
     /\ Collecting(dec)
     /\ check_info(dec, out'[1].station, out'[1].data)
     /\ Byte(out'[1].data, 5) \in Marked(dec)) =>
        /\ dec' = dec
        /\ Signals(out', "on_join_response") = <<>>
        /\ Len(out') = 1

\* C14 (as amended): with the fragments of one join response delivered in any
\* order and any number of times, `finished` is emitted exactly once for every
\* complete set of fragments: by the delivery that completes the set of
\* fragments delivered since the previous emission, and by no other; and a
\* fragment whose index is already marked received changes nothing.
C14_OncePerCompleteSet ==
    /\ [](call.sent =>
            \A p \in fed : p[3] <=> (DeliveredIn(RoundStart(p[1]), p[1]) = AllPackets))
    /\ [][C14_DuplicateStep]_vars

\* C14 (as stated): once every fragment has been delivered at least once, the
\* completed record list has been emitted exactly once.
C14_EmittedExactlyOnce ==
    (call.sent /\ DeliveredIn(1, MaxDeliveries) = AllPackets) => Cardinality(EmittedAt) = 1

\* C14's case: three fragments delivered out of order with duplicates (3, 3,
\* 1, 3, 2): the last delivery completes the set and is the only one to emit.
C14_Witness ==
    /\ call.sent /\ Len(call.packets) = 3
    /\ fed = {<<1, 3, FALSE>>, <<2, 3, FALSE>>, <<3, 1, FALSE>>, <<4, 3, FALSE>>, <<5, 2, TRUE>>}

---------------------------------------------------------------------------
(* Claims checked under Spec: denials, pending connections, failures *)

\* Whether the last operation was a join denial handed to MeshMgr.
IsJoinDenied(o) == o # <<>> /\ o[1].op = "signal" /\ o[1].name = "on_join_denied"

\* C15 (one step): a join denial received while expecting_join_response is
\* false forwards no join_denied event and changes no attribute of MeshMgr; one
\* received while a join is outstanding is forwarded as one join_denied event
\* with the station.
C15_Step ==
    IsJoinDenied(out') =>
        LET forwarded == Entries(out', "signal", "join_denied")
        IN  IF expecting_join_response
            THEN Len(forwarded) = 1 /\ forwarded[1].station = out'[1].station
            ELSE forwarded = <<>> /\ UNCHANGED mgr_vars

\* C15: a join denial received while no join is outstanding is ignored; one
\* received while a join is outstanding is forwarded as join-denied with the
\* station as context.
C15_StrayDenialIgnored == [][C15_Step]_vars

\* C16 (one step): a join response that completes while a join is outstanding,
\* with the assigned slot free, leaves in pending_connect the identity -> index
\* of every record but this station's own, and no entry for this station; when
\* the records' indices are pairwise distinct, no value recorded equals the
\* index this station registered at.
C16_Step ==
    LET sigs == Entries(out', "signal", "on_join_response")
        assigned == sigs[1].data[2]
        records == ResponseRecords(sigs[1])
        own == Rvcid(SelfStation)
    IN  (/\ sigs # <<>>
         /\ expecting_join_response
         /\ assigned \in Slots /\ stations[assigned] = None) =>
            /\ \A rec \in records :
                  rec[1] # own => (rec[1] \in DOMAIN pending_connect'
                                   /\ pending_connect'[rec[1]] = rec[2])
            /\ own \in DOMAIN pending_connect' => own \in DOMAIN pending_connect
            /\ (\A a, b \in records : a[2] = b[2] => a = b) =>
                  \A rec \in records : pending_connect'[rec[1]] = index'[SelfStation] =>
                      rec[1] \in DOMAIN pending_connect /\ pending_connect[rec[1]] = rec[2]

\* C16: on join-response completion pending_connect receives one entry
\* (identity -> index) for every received record other than the client's own,
\* and never an entry for the client itself.
C16_NoPendingEntryForSelf == [][C16_Step]_vars

\* C17 (one step): a station_connected event of a station whose identity is
\* pending removes that entry and no other; when the slot recorded for it is
\* occupied, no slot, no index field and no channel binding changes and no
\* station_joined is raised; an event of a station whose identity is not
\* pending changes nothing.
C17_Step ==
    IsStationConnected(out') =>
        LET station == out'[1].station
            idx == pending_connect[Rvcid(station)]
        IN  IF Rvcid(station) \in DOMAIN pending_connect
            THEN /\ DOMAIN pending_connect' = DOMAIN pending_connect \ {Rvcid(station)}
                 /\ \A r \in DOMAIN pending_connect' : pending_connect'[r] = pending_connect[r]
                 /\ (idx \in Slots /\ stations[idx] # None) =>
                       /\ UNCHANGED <<stations, index, sliding_windows>>
                       /\ Entries(out', "signal", "station_joined") = <<>>
                       /\ Entries(out', "bind", "assign_sliding_window") = <<>>
            ELSE UNCHANGED mgr_vars /\ Len(out') = 1

\* C17: a station-connected event whose identity is pending always removes the
\* entry; with the target slot occupied nothing is overwritten, bound or
\* raised; an event whose identity is not pending changes nothing.
C17_ConnectedEvent == [][C17_Step]_vars

\* C17's case: the host connected while the slot recorded for it held another
\* station: the event was dropped with a warning and the entry is gone.
C17_Witness ==
    /\ IsStationConnected(out)
    /\ HasWarning(out, "Tried to assign station to occupied index")
    /\ Rvcid(out[1].station) \notin DOMAIN pending_connect
    /\ stations[0] = SelfStation /\ index[out[1].station] = Unassigned

\* C18 (one step): a create, an admission or a join-response completion that
\* ends in a registry error (IndexError for an occupied slot, OverflowError for
\* a full registry) changes no attribute of MeshMgr, no slot, index field or
\* channel binding, and sends nothing.
C18_Step ==
    LET operation == \/ out'[1].op = "call" /\ out'[1].name = "create"
                     \/ IsJoinRequest(out')
                     \/ Entries(out', "signal", "on_join_response") # <<>>
    IN  (/\ out' # <<>>
         /\ operation
         /\ Raised(out') # <<>>
         /\ Raised(out')[1].name \in {"IndexError", "OverflowError"}) =>
            /\ UNCHANGED mgr_vars
            /\ SelectSeq(out', LAMBDA e : e.op \in {"send", "resend"}) = <<>>

\* C18: every MeshMgr operation that fails with a registry error (Full,
\* SlotOccupied) leaves host_index, expecting_join_response, the registry,
\* pending_connect, the channel table and update_counter as they were and
\* sends nothing.
C18_RegistryErrorsChangeNothing == [][C18_Step]_vars

---------------------------------------------------------------------------
(* Claims checked under SpecDec: truncated fragments *)

\* Whether a join-response message is shorter than the records it declares.
Truncated(message) == Len(message) < 8 + Byte(message, 6) * StationInfo_sizeof

\* C19 (one step): a fragment shorter than the records it declares, received
\* for the context being collected, raises no exception out of the handler and
\* leaves the received marks and the stored records as they were.
C19_Step ==
    (/\ WasFragment(out')
     /\ Truncated(out'[1].data)
     /\ Collecting(dec)
     /\ check_info(dec, out'[1].station, out'[1].data)) =>
        /\ Marked(dec') = Marked(dec)
        /\ dec'.infos = dec.infos
        /\ Raised(out') = <<>>

\* C19: a join-response fragment whose payload is shorter than the records it
\* declares is dropped as a recoverable decode failure: the marks and the
\* stored records are as before the message, so that a later well-formed
\* delivery of the fragment is still accepted.
C19_TruncatedFragmentDropped == [][C19_Step]_vars

---------------------------------------------------------------------------
(* Claims checked under Spec: join_succeeded and join calls *)

\* Whether the last operation was a call of MeshMgr.join.
IsJoinCall(o) == o # <<>> /\ o[1].op = "call" /\ o[1].name = "join"

\* C20 (one step): join_succeeded is raised, and this station is registered by
\* a join response, at most once per step and only by a step that finds
\* expecting_join_response true and leaves it false; and only a call of join
\* makes the flag true.  So between two events there is a join call, and the
\* events never outnumber the join calls.
C20_Step ==
    LET succeeded == Entries(out', "signal", "join_succeeded")
        completion == Entries(out', "signal", "on_join_response") # <<>>
    IN  /\ Len(succeeded) <= 1
        /\ succeeded # <<>> => (expecting_join_response /\ ~expecting_join_response')
        /\ (completion /\ stations' # stations) =>
              /\ expecting_join_response /\ ~expecting_join_response'
              /\ \E i \in Slots : stations' = [stations EXCEPT ![i] = SelfStation]
        /\ (~expecting_join_response /\ expecting_join_response') => IsJoinCall(out')

\* C20: for every call of MeshMgr.join, join_succeeded is raised at most once
\* and the client registers itself at most once, whatever join-response
\* fragments are delivered afterwards, re-deliveries after the decoder has
\* completed and reset included: the join_succeeded events never outnumber the
\* join calls.
C20_SucceededAtMostOncePerJoin ==
    /\ ~expecting_join_response
    /\ [][C20_Step]_vars

\* C20's case: after a join that succeeded, the whole response was delivered
\* again: the decoder completed again and MeshMgr ignored it.
C20_Witness ==
    /\ Entries(out, "signal", "on_join_response") # <<>>
    /\ HasWarning(out, "Unexpected join response received")
    /\ ~expecting_join_response
    /\ index[SelfStation] = 1 /\ stations[1] = SelfStation
    /\ Rvcid(SelfStation + 1) \in DOMAIN pending_connect

====
